---- MODULE Spec2Model ----
(***************************************************************************)
(* Model of the Gemini REST client of src/src/rest_gemini_client.rs:       *)
(* AiClient::call_llm_api (connectivity probe, HTTP POST) and              *)
(* handle_response (status check, envelope decode, text extraction,        *)
(* cleanup, payload decode, command dispatch).                             *)
(*                                                                         *)
(* Text is modelled character by character: a Rust &str / String is a      *)
(* sequence of one-character strings.  The alphabet of the modelled        *)
(* inputs has the four whitespace characters space, \n, \t and \r, on      *)
(* which char::is_whitespace (str::trim) and JSON whitespace agree; it     *)
(* has no \u escape.                                                       *)
(***************************************************************************)
EXTENDS Integers, Sequences, FiniteSets, TLC

\* ------------------------------------------------------------ literals
\* the backtick character (it cannot be written inside a string here)
BT == "BACKTICK"

FenceStart == <<BT, BT, BT, "j", "s", "o", "n">>
FenceEnd == <<BT, BT, BT>>
KeyCandidates == <<"c", "a", "n", "d", "i", "d", "a", "t", "e", "s">>
KeyContent == <<"c", "o", "n", "t", "e", "n", "t">>
KeyParts == <<"p", "a", "r", "t", "s">>
KeyText == <<"t", "e", "x", "t">>
KeyCommand == <<"c", "o", "m", "m", "a", "n", "d">>
KeyParameters == <<"p", "a", "r", "a", "m", "e", "t", "e", "r", "s">>
CmdGreeting == <<"g", "r", "e", "e", "t", "i", "n", "g">>
CmdOne == <<"1">>
CmdTwo == <<"2">>
MsgExtract == <<"F", "a", "i", "l", "e", "d", " ", "t", "o", " ", "e", "x", "t", "r", "a", "c", "t", " ", "t", "e", "x", "t", " ", "f", "r", "o", "m", " ", "r", "e", "s", "p", "o", "n", "s", "e">>
MsgInvalidJson == <<"I", "n", "v", "a", "l", "i", "d", " ", "J", "S", "O", "N", " ", "i", "n", " ", "r", "e", "s", "p", "o", "n", "s", "e", ":", " ">>
MsgMissingFields == <<"R", "e", "s", "p", "o", "n", "s", "e", " ", "J", "S", "O", "N", " ", "m", "i", "s", "s", "i", "n", "g", " ", "r", "e", "q", "u", "i", "r", "e", "d", " ", "f", "i", "e", "l", "d", "s">>
MsgSingle == <<"S", "i", "n", "g", "l", "e", " ", "p", "a", "r", "a", "m", "e", "t", "e", "r", "s", " ", "m", "u", "s", "t", " ", "b", "e", " ", "a", "n", " ", "o", "b", "j", "e", "c", "t">>
MsgMultiple == <<"M", "u", "l", "t", "i", "p", "l", "e", " ", "p", "a", "r", "a", "m", "e", "t", "e", "r", "s", " ", "m", "u", "s", "t", " ", "b", "e", " ", "a", "n", " ", "a", "r", "r", "a", "y">>
MsgUnknown == <<"U", "n", "k", "n", "o", "w", "n", " ", "c", "o", "m", "m", "a", "n", "d", ":", " ">>
MsgUnreadable == <<"E", "r", "r", "o", "r", " ", "r", "e", "a", "d", "i", "n", "g", " ", "r", "e", "s", "p", "o", "n", "s", "e">>
LitNull == <<"n", "u", "l", "l">>
LitTrue == <<"t", "r", "u", "e">>
LitFalse == <<"f", "a", "l", "s", "e">>
NL == <<"\n">>
Empty == <<>>

\* ------------------------------------------------------- str helpers
StartsWith(s, pat) ==
    Len(pat) <= Len(s) /\ SubSeq(s, 1, Len(pat)) = pat

EndsWith(s, pat) ==
    Len(pat) <= Len(s) /\ SubSeq(s, Len(s) - Len(pat) + 1, Len(s)) = pat

Drop(s, n) == SubSeq(s, n + 1, Len(s))

DropLast(s, n) == SubSeq(s, 1, Len(s) - n)

\* char::is_whitespace, on the modelled alphabet
IsWhitespace(c) == c \in {" ", "\n", "\t", "\r"}

RECURSIVE trim_start(_)
trim_start(s) ==
    IF s # <<>> /\ IsWhitespace(Head(s)) THEN trim_start(Tail(s)) ELSE s

RECURSIVE trim_end(_)
trim_end(s) ==
    IF s # <<>> /\ IsWhitespace(s[Len(s)]) THEN trim_end(DropLast(s, 1)) ELSE s

\* str::trim
trim(s) == trim_end(trim_start(s))

\* a slip: the prefix removed once only, as str::strip_prefix would
trim_start_matches_once(s, pat) ==
    IF pat # <<>> /\ StartsWith(s, pat) THEN Drop(s, Len(pat)) ELSE s

\* str::trim_start_matches: removes the prefix repeatedly
RECURSIVE trim_start_matches(_, _)
trim_start_matches(s, pat) ==
    IF pat # <<>> /\ StartsWith(s, pat)
    THEN trim_start_matches(Drop(s, Len(pat)), pat)
    ELSE s

\* str::trim_end_matches: removes the suffix repeatedly
RECURSIVE trim_end_matches(_, _)
trim_end_matches(s, pat) ==
    IF pat # <<>> /\ EndsWith(s, pat)
    THEN trim_end_matches(DropLast(s, Len(pat)), pat)
    ELSE s

\* the concatenation of a sequence of texts
RECURSIVE Flatten(_)
Flatten(ss) ==
    IF ss = <<>> THEN <<>>
    ELSE IF Len(ss) = 1 THEN ss[1]
    ELSE LET h == Len(ss) \div 2
         IN  Flatten(SubSeq(ss, 1, h)) \o Flatten(SubSeq(ss, h + 1, Len(ss)))

\* str::replace with a one-character pattern: every occurrence of c becomes to
replace(s, c, to) ==
    Flatten([n \in 1..Len(s) |-> IF s[n] = c THEN to ELSE <<s[n]>>])

\* ---------------------------------------------- cleanup, lines 139-142
trimmed(raw_text) == trim(raw_text)

\* a slip: the trailing fence literal stripped at the start as well
without_markers_short_fence(raw_text) ==
    trim_end_matches(trim_start_matches(trimmed(raw_text), FenceEnd), FenceEnd)

without_markers(raw_text) ==
    trim_end_matches(trim_start_matches(trimmed(raw_text), FenceStart), FenceEnd)

without_newlines(raw_text) == replace(without_markers(raw_text), "\n", Empty)

\* a slip: the last trim left out
CleanText_without_last_trim(raw_text) == without_newlines(raw_text)

CleanText(raw_text) == trim(without_newlines(raw_text))

\* ------------------------------------------------- serde_json::Value
JNull == [t |-> "null", s |-> <<>>, keys |-> <<>>, kids |-> <<>>]
JBool(lex) == [t |-> "bool", s |-> lex, keys |-> <<>>, kids |-> <<>>]
JNumber(lex) == [t |-> "number", s |-> lex, keys |-> <<>>, kids |-> <<>>]
JString(s) == [t |-> "string", s |-> s, keys |-> <<>>, kids |-> <<>>]
JArray(kids) == [t |-> "array", s |-> <<>>, keys |-> <<>>, kids |-> kids]
JObject(keys, kids) == [t |-> "object", s |-> <<>>, keys |-> keys, kids |-> kids]

is_object(v) == v.t = "object"
is_array(v) == v.t = "array"
is_string(v) == v.t = "string"

\* Map::insert: a repeated key replaces the earlier value
MapInsert(keys, kids, k, v) ==
    IF \E n \in 1..Len(keys) : keys[n] = k
    THEN LET n == CHOOSE n \in 1..Len(keys) : keys[n] = k
         IN  [keys |-> keys, kids |-> [kids EXCEPT ![n] = v]]
    ELSE [keys |-> Append(keys, k), kids |-> Append(kids, v)]

\* Index<&str> for Value: Null unless an object holding the key
IndexKey(v, k) ==
    IF is_object(v) /\ \E n \in 1..Len(v.keys) : v.keys[n] = k
    THEN v.kids[CHOOSE n \in 1..Len(v.keys) : v.keys[n] = k]
    ELSE JNull

\* Index<usize> for Value: Null unless an array long enough
IndexNum(v, n) ==
    IF is_array(v) /\ n + 1 <= Len(v.kids) THEN v.kids[n + 1] ELSE JNull

\* --------------------------------------------- serde_json::from_str
PFail == [ok |-> FALSE, v |-> JNull, i |-> 0]
POk(v, i) == [ok |-> TRUE, v |-> v, i |-> i]

Digits == {"0", "1", "2", "3", "4", "5", "6", "7", "8", "9"}

HasAt(s, i, lit) ==
    i + Len(lit) - 1 <= Len(s) /\ SubSeq(s, i, i + Len(lit) - 1) = lit

RECURSIVE SkipWs(_, _)
SkipWs(s, i) ==
    IF i <= Len(s) /\ s[i] \in {" ", "\n", "\t", "\r"} THEN SkipWs(s, i + 1) ELSE i

RECURSIVE SkipDigits(_, _)
SkipDigits(s, i) ==
    IF i <= Len(s) /\ s[i] \in Digits THEN SkipDigits(s, i + 1) ELSE i

\* the character an escape letter stands for ("\\b" stands for backspace)
Unescape(c) ==
    CASE c = "n" -> "\n" [] c = "t" -> "\t" [] c = "r" -> "\r"
      [] c = "f" -> "\f" [] c = "b" -> "\\b" [] OTHER -> c

\* the characters that end a run of plain string characters
StringSpecial(c) == c \in {"\"", "\\", "\n", "\t", "\r", "\f", "\\b"}

\* the first index from j on that holds a special character, or Len(s) + 1
NextSpecial(s, j) ==
    IF \E k \in j..Len(s) : StringSpecial(s[k])
    THEN CHOOSE k \in j..Len(s) :
            StringSpecial(s[k]) /\ \A m \in j..(k - 1) : ~StringSpecial(s[m])
    ELSE Len(s) + 1

\* s[j..] after an opening quote: the string value and the index after it.
\* Plain runs are copied whole; an escape adds the character it stands for; a
\* raw control character or the end of input is an error.  The \u escape is
\* outside the modelled alphabet.
RECURSIVE ScanString(_, _, _)
ScanString(s, j, acc) ==
    LET k == NextSpecial(s, j)
        run == acc \o SubSeq(s, j, k - 1)
    IN  IF k > Len(s) THEN PFail
        ELSE IF s[k] = "\"" THEN POk(JString(run), k + 1)
        ELSE IF s[k] = "\\"
             THEN IF k + 1 <= Len(s) /\ s[k + 1] \in {"\"", "\\", "/", "b", "f", "n", "r", "t"}
                  THEN ScanString(s, k + 2, Append(run, Unescape(s[k + 1])))
                  ELSE PFail
        ELSE PFail

\* a number starting at i: -? (0 | [1-9][0-9]*) (. [0-9]+)? ([eE] [+-]? [0-9]+)?
ScanNumber(s, i) ==
    LET a == IF s[i] = "-" THEN i + 1 ELSE i
        b == IF a > Len(s) \/ s[a] \notin Digits THEN 0
             ELSE IF s[a] = "0"
                  THEN IF a + 1 <= Len(s) /\ s[a + 1] \in Digits THEN 0 ELSE a + 1
                  ELSE SkipDigits(s, a)
        c == IF b = 0 THEN 0
             ELSE IF b <= Len(s) /\ s[b] = "."
                  THEN IF SkipDigits(s, b + 1) = b + 1 THEN 0 ELSE SkipDigits(s, b + 1)
                  ELSE b
        d == IF c = 0 THEN 0
             ELSE IF c <= Len(s) /\ s[c] \in {"e", "E"}
                  THEN LET g == IF c + 1 <= Len(s) /\ s[c + 1] \in {"+", "-"}
                                THEN c + 2 ELSE c + 1
                       IN  IF SkipDigits(s, g) = g THEN 0 ELSE SkipDigits(s, g)
                  ELSE c
    IN  IF d = 0 THEN PFail ELSE POk(JNumber(SubSeq(s, i, d - 1)), d)

RECURSIVE ParseValue(_, _)
RECURSIVE ParseElems(_, _, _)
RECURSIVE ParseMembers(_, _, _)

\* one JSON value starting at or after i0, whitespace skipped
ParseValue(s, i0) ==
    LET i == SkipWs(s, i0) IN
    IF i > Len(s) THEN PFail
    ELSE IF s[i] = "n" THEN IF HasAt(s, i, LitNull) THEN POk(JNull, i + 4) ELSE PFail
    ELSE IF s[i] = "t" THEN IF HasAt(s, i, LitTrue) THEN POk(JBool(LitTrue), i + 4) ELSE PFail
    ELSE IF s[i] = "f" THEN IF HasAt(s, i, LitFalse) THEN POk(JBool(LitFalse), i + 5) ELSE PFail
    ELSE IF s[i] = "\"" THEN ScanString(s, i + 1, <<>>)
    ELSE IF s[i] = "-" \/ s[i] \in Digits THEN ScanNumber(s, i)
    ELSE IF s[i] = "["
         THEN LET j == SkipWs(s, i + 1) IN
              IF j > Len(s) THEN PFail
              ELSE IF s[j] = "]" THEN POk(JArray(<<>>), j + 1)
              ELSE ParseElems(s, j, <<>>)
    ELSE IF s[i] = "{"
         THEN LET j == SkipWs(s, i + 1) IN
              IF j > Len(s) THEN PFail
              ELSE IF s[j] = "}" THEN POk(JObject(<<>>, <<>>), j + 1)
              ELSE ParseMembers(s, j, [keys |-> <<>>, kids |-> <<>>])
    ELSE PFail

\* the elements of an array from j on, up to its closing bracket
ParseElems(s, j, acc) ==
    LET r == ParseValue(s, j) IN
    IF ~r.ok THEN PFail
    ELSE LET k == SkipWs(s, r.i) IN
         IF k > Len(s) THEN PFail
         ELSE IF s[k] = "," THEN ParseElems(s, k + 1, Append(acc, r.v))
         ELSE IF s[k] = "]" THEN POk(JArray(Append(acc, r.v)), k + 1)
         ELSE PFail

\* the members of an object from j on (at a key), up to its closing brace
ParseMembers(s, j, m) ==
    IF j > Len(s) \/ s[j] # "\"" THEN PFail
    ELSE LET ks == ScanString(s, j + 1, <<>>) IN
         IF ~ks.ok THEN PFail
         ELSE LET c == SkipWs(s, ks.i) IN
              IF c > Len(s) \/ s[c] # ":" THEN PFail
              ELSE LET r == ParseValue(s, c + 1) IN
                   IF ~r.ok THEN PFail
                   ELSE LET k == SkipWs(s, r.i)
                            m2 == MapInsert(m.keys, m.kids, ks.v.s, r.v)
                        IN  IF k > Len(s) THEN PFail
                            ELSE IF s[k] = "," THEN ParseMembers(s, SkipWs(s, k + 1), m2)
                            ELSE IF s[k] = "}" THEN POk(JObject(m2.keys, m2.kids), k + 1)
                            ELSE PFail

\* serde_json::from_str: one value, then only whitespace to the end
from_str(s) ==
    LET r == ParseValue(s, 1) IN
    IF r.ok /\ SkipWs(s, r.i) = Len(s) + 1 THEN r ELSE PFail

\* ------------------------------------------------------------ bounds
\* leading/trailing whitespace characters around the model's text
MaxPad == 1
\* repeated fence literals at either end
MaxFence == 2
\* newlines between a fence and the payload
MaxNl == 2

\* ------------------------------------------------------------ inputs
RECURSIVE Rep(_, _)
Rep(s, n) == IF n = 0 THEN <<>> ELSE s \o Rep(s, n - 1)

RECURSIVE Join(_)
Join(parts) ==
    IF parts = <<>> THEN <<>>
    ELSE IF Len(parts) = 1 THEN parts[1]
    ELSE parts[1] \o <<",">> \o Join(Tail(parts))

\* JSON string escaping of the characters of the alphabet
Escape(s) ==
    Flatten([n \in 1..Len(s) |->
        CASE s[n] = "\"" -> <<"\\", "\"">>
          [] s[n] = "\\" -> <<"\\", "\\">>
          [] s[n] = "\n" -> <<"\\", "n">>
          [] s[n] = "\t" -> <<"\\", "t">>
          [] s[n] = "\r" -> <<"\\", "r">>
          [] OTHER -> <<s[n]>>])

Q(s) == <<"\"">> \o Escape(s) \o <<"\"">>
KV(k, v) == Q(k) \o <<":">> \o v
Braces(parts) == <<"{">> \o Join(parts) \o <<"}">>
Brackets(parts) == <<"[">> \o Join(parts) \o <<"]">>

EmptyObj == Braces(<<>>)
ObjA1 == Braces(<<KV(<<"a">>, <<"1">>)>>)
Arr12 == Brackets(<<<<"1">>, <<"2">>>>)
Payload(cmd, params) == Braces(<<KV(KeyCommand, cmd), KV(KeyParameters, params)>>)

GreetingPayload == Payload(Q(CmdGreeting), EmptyObj)

\* payloads that go through every wrapper
WrappedCores ==
    { GreetingPayload,
      \* whitespace and a newline between the tokens
      <<"{">> \o KV(KeyCommand, <<" ">> \o Q(CmdTwo)) \o <<",", "\n", " ">>
             \o KV(KeyParameters, <<" ">> \o Arr12) \o <<"}">>,
      \* a payload that carries fence literals of its own
      FenceStart \o Payload(Q(CmdOne), EmptyObj) \o FenceEnd,
      \* a newline inside the command string
      Payload(<<"\"", "g", "r", "e", "e", "\n", "t", "i", "n", "g", "\"">>, ObjA1) }

\* payloads that decide the command contract
SchemaCores ==
    { Payload(Q(CmdGreeting), ObjA1),
      Payload(Q(CmdOne), EmptyObj),
      Payload(Q(CmdTwo), Arr12),
      Payload(Q(CmdTwo), Brackets(<<>>)),
      Payload(Q(CmdTwo), ObjA1),
      Payload(Q(CmdOne), Arr12),
      Payload(Q(CmdGreeting), Q(<<"s">>)),
      Payload(Q(CmdGreeting), LitNull),
      Payload(Q(<<"x">>), EmptyObj),
      Payload(Q(<<"x">>), <<"1">>),
      Payload(Q(<<>>), EmptyObj),
      Payload(<<"5">>, EmptyObj),
      Payload(LitTrue, Arr12),
      Braces(<<KV(KeyParameters, EmptyObj)>>),
      Braces(<<KV(KeyCommand, Q(CmdGreeting))>>),
      Braces(<<KV(KeyCommand, Q(CmdOne))>>),
      Braces(<<KV(KeyCommand, Q(CmdTwo))>>),
      Braces(<<KV(KeyCommand, Q(<<"x">>))>>),
      \* a repeated key: the later value stands
      Braces(<<KV(KeyCommand, Q(CmdGreeting)), KV(KeyParameters, EmptyObj),
               KV(KeyCommand, Q(CmdTwo))>>),
      EmptyObj,
      Arr12,
      Q(CmdGreeting),
      <<"1">>,
      LitNull,
      \* not JSON
      <<>>,
      <<"{">> \o KV(KeyCommand, <<>>),
      GreetingPayload \o <<"x">>,
      <<"h", "i">> }

PadChar(n) == IF n % 2 = 1 THEN " " ELSE "\n"
Pad(a) == [n \in 1..a |-> PadChar(n)]
Seps == {Rep(NL, n) : n \in 0..MaxNl} \cup {<<" ">>}

\* whitespace, fences, separator, core, separator, fences, whitespace
Wrap(a, b, sep, c, core) ==
    Pad(a) \o Rep(FenceStart, b) \o sep \o core \o sep \o Rep(FenceEnd, c) \o Pad(a)

\* the texts the model may have generated
InnerTexts ==
    {Wrap(a, b, sep, c, core) :
        a \in 0..MaxPad, b \in 0..MaxFence, sep \in Seps, c \in 0..MaxFence,
        core \in WrappedCores}
    \cup {core : core \in SchemaCores}
    \cup {Wrap(0, 1, NL, 1, core) : core \in SchemaCores}

TextPart(v) == Braces(<<KV(KeyText, v)>>)
ContentOf(parts) ==
    Braces(<<KV(KeyParts, parts), KV(<<"r", "o", "l", "e">>, Q(<<"m", "o", "d", "e", "l">>))>>)
Candidate(content) == Braces(<<KV(KeyContent, content)>>)
EnvelopeOf(candidates) == Braces(<<KV(KeyCandidates, candidates)>>)

\* the provider's envelope around a generated text
Envelope(inner) ==
    EnvelopeOf(Brackets(<<Candidate(ContentOf(Brackets(<<TextPart(Q(inner))>>)))>>))

\* JSON bodies in which the path candidates[0].content.parts[0].text breaks
BrokenEnvelopes ==
    { EmptyObj,
      Arr12,
      LitNull,
      Q(KeyCandidates),
      EnvelopeOf(Brackets(<<>>)),
      EnvelopeOf(EmptyObj),
      EnvelopeOf(Q(KeyText)),
      EnvelopeOf(Braces(<<KV(<<"0">>, Candidate(ContentOf(Brackets(<<TextPart(Q(GreetingPayload))>>))))>>)),
      EnvelopeOf(Brackets(<<EmptyObj>>)),
      EnvelopeOf(Brackets(<<Arr12>>)),
      EnvelopeOf(Brackets(<<Candidate(EmptyObj)>>)),
      EnvelopeOf(Brackets(<<Candidate(Arr12)>>)),
      EnvelopeOf(Brackets(<<Candidate(ContentOf(Brackets(<<>>)))>>)),
      EnvelopeOf(Brackets(<<Candidate(ContentOf(EmptyObj))>>)),
      EnvelopeOf(Brackets(<<Candidate(ContentOf(Brackets(<<EmptyObj>>)))>>)),
      EnvelopeOf(Brackets(<<Candidate(ContentOf(Brackets(<<Q(GreetingPayload)>>)))>>)),
      EnvelopeOf(Brackets(<<Candidate(ContentOf(Brackets(<<TextPart(<<"5">>)>>)))>>)),
      EnvelopeOf(Brackets(<<Candidate(ContentOf(Brackets(<<TextPart(LitNull)>>)))>>)),
      EnvelopeOf(Brackets(<<Candidate(ContentOf(Brackets(<<TextPart(EmptyObj)>>)))>>)),
      \* the text sits in the second candidate only
      EnvelopeOf(Brackets(<<EmptyObj, Candidate(ContentOf(Brackets(<<TextPart(Q(GreetingPayload))>>)))>>)) }

\* bodies that are not JSON
NotJsonBodies ==
    { <<>>,
      <<"N", "o", "t", " ", "F", "o", "u", "n", "d">>,
      <<"{">> \o KV(KeyCandidates, <<"[">>),
      Envelope(GreetingPayload) \o <<"}">> }

Bodies ==
    {Envelope(t) : t \in InnerTexts} \cup BrokenEnvelopes \cup NotJsonBodies

\* a few bodies of each kind, for the statuses around the 2xx range
EdgeBodies ==
    { Envelope(GreetingPayload),
      Envelope(Wrap(0, 1, NL, 1, Payload(Q(CmdTwo), Arr12))),
      Envelope(Payload(Q(<<"x">>), EmptyObj)),
      Envelope(<<"h", "i">>),
      EnvelopeOf(Brackets(<<>>)),
      <<"N", "o", "t", " ", "F", "o", "u", "n", "d">>,
      <<>> }

Statuses == {100, 199, 200, 204, 299, 300, 404, 500, 999}

\* what send() hands to handle_response: a status and a body, readable or not
Responses ==
    [status : {200, 404}, readable : {TRUE}, body : Bodies]
    \cup [status : Statuses, readable : {TRUE}, body : EdgeBodies]
    \cup [status : Statuses, readable : {FALSE}, body : {<<>>}]

\* ------------------------------------------------------------- state
VARIABLES
    pc,             \* the position in main / call_llm_api / handle_response
    log,            \* what call_llm_api has done so far, in order
    res,            \* the reqwest::Response handed to handle_response
    status,         \* handle_response: res.status()
    response_json,  \* handle_response: the decoded envelope
    raw_text,       \* handle_response: the extracted text
    text,           \* handle_response: the cleaned text
    json_value,     \* handle_response: the decoded payload
    steps,          \* the steps handle_response has run, in order
    result          \* what call_llm_api returns

vars == <<pc, log, res, status, response_json, raw_text, text, json_value, steps, result>>

NoResponse == [status |-> 0, readable |-> FALSE, body |-> <<>>]

\* Result<String, Box<dyn Error>>: Ok carries the text in message
NoResult == [kind |-> "None", status |-> 0, message |-> <<>>]
OkResult(t) == [kind |-> "Ok", status |-> 0, message |-> t]
ApiError(st, msg) == [kind |-> "ApiError", status |-> st, message |-> msg]
\* the reqwest::Error of res.json(), passed on by `?`
DecodeError == [kind |-> "DecodeError", status |-> 0, message |-> <<>>]
\* the reqwest::Error of send()
TransportError == [kind |-> "TransportError", status |-> 0, message |-> <<>>]
\* the io::Error of to_socket_addrs()
ResolveError == [kind |-> "ResolveError", status |-> 0, message |-> <<>>]
\* main's unwrap() of an Err
Panic == [kind |-> "Panic", status |-> 0, message |-> <<>>]

\* Display of the serde_json::Error, kept opaque
SerdeErrorText == <<"<serde_json::Error>">>

\* a slip: the upper end of the range included
is_success_through_300(st) == 200 <= st /\ st <= 300

\* StatusCode::is_success
is_success(st) == 200 <= st /\ st < 300

\* Response::text(), with the fallback of unwrap_or_else
error_body(r) == IF r.readable THEN r.body ELSE MsgUnreadable

\* Response::json(): the body read and decoded
json(r) == IF r.readable THEN from_str(r.body) ELSE PFail

\* a slip: the second candidate read instead of the first
TextNode_second_candidate(v) ==
    IndexKey(IndexNum(IndexKey(IndexKey(IndexNum(IndexKey(v, KeyCandidates), 1),
                                        KeyContent), KeyParts), 0), KeyText)

\* response_json["candidates"][0]["content"]["parts"][0]["text"]
TextNode(v) ==
    IndexKey(IndexNum(IndexKey(IndexKey(IndexNum(IndexKey(v, KeyCandidates), 0),
                                        KeyContent), KeyParts), 0), KeyText)

\* a slip: the command's type left unchecked
FieldsPresent_object_only(v) == is_object(v)

\* line 152: the payload is an object whose command is a string
FieldsPresent(v) == is_object(v) /\ is_string(IndexKey(v, KeyCommand))

\* a slip: the arm of "2" copied from the arm of "1"
MatchCommand_copied_arm(v) ==
    LET command == IndexKey(v, KeyCommand).s
        parameters == IndexKey(v, KeyParameters)
    IN  IF command \in {CmdGreeting, CmdOne, CmdTwo}
        THEN IF ~is_object(parameters) THEN MsgSingle ELSE <<>>
        ELSE MsgUnknown \o command

\* lines 160-192: the message of the error the match returns, <<>> when none
MatchCommand(v) ==
    LET command == IndexKey(v, KeyCommand).s
        parameters == IndexKey(v, KeyParameters)
    IN  IF command = CmdGreeting
        THEN IF ~is_object(parameters) THEN MsgSingle ELSE <<>>
        ELSE IF command = CmdOne
        THEN IF ~is_object(parameters) THEN MsgSingle ELSE <<>>
        ELSE IF command = CmdTwo
        THEN IF ~is_array(parameters) THEN MsgMultiple ELSE <<>>
        ELSE MsgUnknown \o command

Init ==
    /\ pc = "main_probe"
    /\ log = <<>>
    /\ res = NoResponse
    /\ status = 0
    /\ response_json = JNull
    /\ raw_text = <<>>
    /\ text = <<>>
    /\ json_value = JNull
    /\ steps = <<>>
    /\ result = NoResult

Return(r) == pc' = "done" /\ result' = r

\* main.rs line 12: test_basic_connectivity().await.unwrap()
MainProbe ==
    /\ pc = "main_probe"
    /\ \E resolved \in BOOLEAN :
          IF resolved
          THEN pc' = "call_probe" /\ UNCHANGED result
          ELSE Return(Panic)
    /\ UNCHANGED <<log, res, status, response_json, raw_text, text, json_value, steps>>

\* a slip: the probe's error logged and the request sent all the same
CallProbe_advisory ==
    /\ pc = "call_probe"
    /\ \E resolved \in BOOLEAN :
          log' = Append(log, IF resolved THEN "probe:ok" ELSE "probe:err")
    /\ pc' = "call_post"
    /\ UNCHANGED <<res, status, response_json, raw_text, text, json_value, steps, result>>

\* call_llm_api lines 73-76: the connectivity probe, an Err returned at once
CallProbe ==
    /\ pc = "call_probe"
    /\ \E resolved \in BOOLEAN :
          IF resolved
          THEN /\ log' = Append(log, "probe:ok")
               /\ pc' = "call_post"
               /\ UNCHANGED result
          ELSE /\ log' = Append(log, "probe:err")
               /\ Return(ResolveError)
    /\ UNCHANGED <<res, status, response_json, raw_text, text, json_value, steps>>

\* call_llm_api lines 99-120: the POST; a response goes to handle_response
CallPost ==
    /\ pc = "call_post"
    /\ \/ /\ log' = Append(log, "post:err")
          /\ Return(TransportError)
          /\ UNCHANGED res
       \/ \E r \in Responses :
             /\ log' = Append(Append(log, "post:ok"), "handle_response")
             /\ res' = r
             /\ pc' = "hr_status"
             /\ UNCHANGED result
    /\ UNCHANGED <<status, response_json, raw_text, text, json_value, steps>>

\* handle_response lines 125-126, 195-202
HrStatus ==
    /\ pc = "hr_status"
    /\ status' = res.status
    /\ steps' = Append(steps, "status")
    /\ IF is_success(res.status)
       THEN pc' = "hr_json" /\ UNCHANGED result
       ELSE Return(ApiError(res.status, error_body(res)))
    /\ UNCHANGED <<log, res, response_json, raw_text, text, json_value>>

\* a slip: the envelope's decode error wrapped like the payload's
HrJson_wrapped ==
    /\ pc = "hr_json"
    /\ steps' = Append(steps, "json")
    /\ LET r == json(res) IN
       IF r.ok
       THEN response_json' = r.v /\ pc' = "hr_extract" /\ UNCHANGED result
       ELSE Return(ApiError(status, MsgInvalidJson \o SerdeErrorText)) /\ UNCHANGED response_json
    /\ UNCHANGED <<log, res, status, raw_text, text, json_value>>

\* handle_response line 127
HrJson ==
    /\ pc = "hr_json"
    /\ steps' = Append(steps, "json")
    /\ LET r == json(res) IN
       IF r.ok
       THEN response_json' = r.v /\ pc' = "hr_extract" /\ UNCHANGED result
       ELSE Return(DecodeError) /\ UNCHANGED response_json
    /\ UNCHANGED <<log, res, status, raw_text, text, json_value>>

\* handle_response lines 131-136
HrExtract ==
    /\ pc = "hr_extract"
    /\ steps' = Append(steps, "extract")
    /\ LET node == TextNode(response_json) IN
       IF is_string(node)
       THEN raw_text' = node.s /\ pc' = "hr_clean" /\ UNCHANGED result
       ELSE Return(ApiError(status, MsgExtract)) /\ UNCHANGED raw_text
    /\ UNCHANGED <<log, res, status, response_json, text, json_value>>

\* handle_response lines 139-142
HrClean ==
    /\ pc = "hr_clean"
    /\ steps' = Append(steps, "clean")
    /\ text' = CleanText(raw_text)
    /\ pc' = "hr_from_str"
    /\ UNCHANGED <<log, res, status, response_json, raw_text, json_value, result>>

\* handle_response lines 145-149
HrFromStr ==
    /\ pc = "hr_from_str"
    /\ steps' = Append(steps, "from_str")
    /\ LET r == from_str(text) IN
       IF r.ok
       THEN json_value' = r.v /\ pc' = "hr_fields" /\ UNCHANGED result
       ELSE Return(ApiError(status, MsgInvalidJson \o SerdeErrorText)) /\ UNCHANGED json_value
    /\ UNCHANGED <<log, res, status, response_json, raw_text, text>>

\* handle_response lines 152-157
HrFields ==
    /\ pc = "hr_fields"
    /\ steps' = Append(steps, "fields")
    /\ IF FieldsPresent(json_value)
       THEN pc' = "hr_match" /\ UNCHANGED result
       ELSE Return(ApiError(status, MsgMissingFields))
    /\ UNCHANGED <<log, res, status, response_json, raw_text, text, json_value>>

\* a slip: the extracted text returned instead of the cleaned text
HrMatch_returns_raw_text ==
    /\ pc = "hr_match"
    /\ steps' = Append(steps, "match")
    /\ LET err == MatchCommand(json_value) IN
       IF ~is_string(IndexKey(json_value, KeyCommand))
       THEN Return(Panic)
       ELSE IF err = <<>>
       THEN Return(OkResult(raw_text))
       ELSE Return(ApiError(status, err))
    /\ UNCHANGED <<log, res, status, response_json, raw_text, text, json_value>>

\* handle_response lines 160-194
HrMatch ==
    /\ pc = "hr_match"
    /\ steps' = Append(steps, "match")
    /\ LET err == MatchCommand(json_value) IN
       IF ~is_string(IndexKey(json_value, KeyCommand))
       THEN Return(Panic)                      \* line 160: as_str().unwrap()
       ELSE IF err = <<>>
       THEN Return(OkResult(text))
       ELSE Return(ApiError(status, err))
    /\ UNCHANGED <<log, res, status, response_json, raw_text, text, json_value>>

Next ==
    \/ MainProbe
    \/ CallProbe
    \/ CallPost
    \/ HrStatus
    \/ HrJson
    \/ HrExtract
    \/ HrClean
    \/ HrFromStr
    \/ HrFields
    \/ HrMatch

Spec == Init /\ [][Next]_vars

\* -------------------------------------------------- reference notions
\* handle_response has run the step
Ran(step) == \E n \in DOMAIN steps : steps[n] = step

\* call_llm_api has handed a response to handle_response
Invoked == \E n \in DOMAIN log : log[n] = "handle_response"

HasMember(v, k) == v.t = "object" /\ \E n \in DOMAIN v.keys : v.keys[n] = k
Member(v, k) == v.kids[CHOOSE n \in DOMAIN v.keys : v.keys[n] = k]
FirstOf(v) == v.kids[1]
NonEmptyArray(v) == v.t = "array" /\ Len(v.kids) > 0

\* candidates[0].content.parts[0].text is there, segment by segment, and a string
PathPresent(v) ==
    /\ HasMember(v, KeyCandidates)
    /\ NonEmptyArray(Member(v, KeyCandidates))
    /\ HasMember(FirstOf(Member(v, KeyCandidates)), KeyContent)
    /\ LET content == Member(FirstOf(Member(v, KeyCandidates)), KeyContent) IN
       /\ HasMember(content, KeyParts)
       /\ NonEmptyArray(Member(content, KeyParts))
       /\ HasMember(FirstOf(Member(content, KeyParts)), KeyText)
       /\ Member(FirstOf(Member(content, KeyParts)), KeyText).t = "string"

HasMemberOfType(v, k, type) == HasMember(v, k) /\ Member(v, k).t = type

\* the command contract of the payload
ValidPayload(v) ==
    /\ HasMemberOfType(v, KeyCommand, "string")
    /\ \/ /\ Member(v, KeyCommand).s \in {CmdGreeting, CmdOne}
          /\ HasMemberOfType(v, KeyParameters, "object")
       \/ /\ Member(v, KeyCommand).s = CmdTwo
          /\ HasMemberOfType(v, KeyParameters, "array")

\* the message the command contract asks for, <<>> for a valid payload
ContractMessage(v) ==
    IF ~HasMemberOfType(v, KeyCommand, "string") THEN MsgMissingFields
    ELSE IF Member(v, KeyCommand).s \in {CmdGreeting, CmdOne}
         THEN IF HasMemberOfType(v, KeyParameters, "object") THEN <<>> ELSE MsgSingle
    ELSE IF Member(v, KeyCommand).s = CmdTwo
         THEN IF HasMemberOfType(v, KeyParameters, "array") THEN <<>> ELSE MsgMultiple
    ELSE MsgUnknown \o Member(v, KeyCommand).s

NotNewline(c) == c # "\n"
IsSpace(c) == c \in {" ", "\n", "\t", "\r"}

\* s without its leading and trailing whitespace
Stripped(s) ==
    IF \A n \in DOMAIN s : IsSpace(s[n]) THEN <<>>
    ELSE LET first == CHOOSE n \in DOMAIN s :
                          ~IsSpace(s[n]) /\ \A m \in 1..(n - 1) : IsSpace(s[m])
             last == CHOOSE n \in DOMAIN s :
                          ~IsSpace(s[n]) /\ \A m \in (n + 1)..Len(s) : IsSpace(s[m])
         IN  SubSeq(s, first, last)

GreatestOf(S) == CHOOSE n \in S : \A m \in S : m <= n

\* how many copies of pat s starts with, and ends with
LeadingCopies(s, pat) ==
    GreatestOf({k \in 0..(Len(s) \div Len(pat)) : StartsWith(s, Rep(pat, k))})
TrailingCopies(s, pat) ==
    GreatestOf({k \in 0..(Len(s) \div Len(pat)) : EndsWith(s, Rep(pat, k))})

\* CleanedText as the data model words it: trimmed, one leading fence and one
\* trailing fence removed, the newlines removed
OneFenceCleaned(t) ==
    LET a == Stripped(t)
        b == IF StartsWith(a, FenceStart) THEN Drop(a, Len(FenceStart)) ELSE a
        c == IF EndsWith(b, FenceEnd) THEN DropLast(b, Len(FenceEnd)) ELSE b
    IN  SelectSeq(c, NotNewline)

\* trimmed, every leading and every trailing fence removed, the newlines
\* removed, trimmed again
AllFencesCleaned(t) ==
    LET a == Stripped(t)
        b == Drop(a, LeadingCopies(a, FenceStart) * Len(FenceStart))
        c == DropLast(b, TrailingCopies(b, FenceEnd) * Len(FenceEnd))
    IN  Stripped(SelectSeq(c, NotNewline))

\* ------------------------------------------------------------- claims

\* C1: a response with a status outside 2xx and a readable body ends in an
\* ApiError with exactly that status and exactly the raw body as message, and
\* only the status step has run: nothing was decoded, extracted or cleaned.
C1_HttpError ==
    (pc = "done" /\ Invoked /\ res.status \notin 200..299 /\ res.readable)
        => /\ result = ApiError(res.status, res.body)
           /\ steps = <<"status">>
           /\ response_json = JNull /\ json_value = JNull
           /\ raw_text = <<>> /\ text = <<>>

\* a 404 whose body is a well-formed envelope around a valid payload
C1_Witness ==
    /\ pc = "done" /\ res.status = 404 /\ res.readable
    /\ res.body = Envelope(GreetingPayload)
    /\ result = ApiError(404, Envelope(GreetingPayload))

\* C2: a 2xx response whose body decodes as JSON but lacks the path
\* candidates[0].content.parts[0].text, or holds a non-string there, ends in
\* the ApiError "Failed to extract text from response".
C2_ExtractionError ==
    (pc = "done" /\ Invoked /\ res.status \in 200..299 /\ res.readable
        /\ from_str(res.body).ok /\ ~PathPresent(from_str(res.body).v))
        => result = ApiError(res.status, MsgExtract)

\* the text sits in the second candidate and the first has none
C2_Witness ==
    /\ pc = "done" /\ res.status = 200 /\ res.readable
    /\ res.body = EnvelopeOf(Brackets(<<EmptyObj,
           Candidate(ContentOf(Brackets(<<TextPart(Q(GreetingPayload))>>)))>>))
    /\ result = ApiError(200, MsgExtract)

\* C3: the text of every Ok result decodes again as JSON, to an object whose
\* command is "greeting", "1" or "2" and whose parameters have the shape that
\* command asks for.
C3_OkRoundTrip ==
    result.kind = "Ok"
        => /\ from_str(result.message).ok
           /\ ValidPayload(from_str(result.message).v)

\* an accepted fenced payload of command "2"
C3_Witness ==
    /\ result.kind = "Ok"
    /\ raw_text # result.message
    /\ Member(from_str(result.message).v, KeyCommand).s = CmdTwo

\* C4 as claimed: the cleaned text is the extracted text trimmed, with one
\* leading fence and one trailing fence removed and the newlines removed, and
\* nothing else.
C4_OneFenceCleanedText ==
    /\ Ran("clean") => text = OneFenceCleaned(raw_text)
    /\ result.kind = "Ok" => result.message = OneFenceCleaned(raw_text)

\* C4 amended: the cleaned text, which is what is decoded and returned on
\* success, is the extracted text trimmed, with every repeated leading fence
\* and every repeated trailing fence removed, the newlines removed, and then
\* trimmed once more.
C4_CleanedText ==
    /\ Ran("clean") => text = AllFencesCleaned(raw_text)
    /\ Ran("from_str") => json_value = from_str(AllFencesCleaned(raw_text)).v
    /\ result.kind = "Ok" => result.message = AllFencesCleaned(raw_text)

\* an accepted text on which the two readings of the cleanup differ
C4_Witness ==
    /\ result.kind = "Ok"
    /\ result.message = AllFencesCleaned(raw_text)
    /\ result.message # OneFenceCleaned(raw_text)

HasNoNewline(s) == \A n \in DOMAIN s : s[n] # "\n"

\* s without the newlines at its two ends
NewlinesStripped(s) ==
    IF \A n \in DOMAIN s : s[n] = "\n" THEN <<>>
    ELSE LET first == CHOOSE n \in DOMAIN s :
                          s[n] # "\n" /\ \A m \in 1..(n - 1) : s[m] = "\n"
             last == CHOOSE n \in DOMAIN s :
                          s[n] # "\n" /\ \A m \in (n + 1)..Len(s) : s[m] = "\n"
         IN  SubSeq(s, first, last)

\* what lies between the fences of a stripped text
Fenced(t) ==
    LET u == Stripped(t)
    IN  SubSeq(u, Len(FenceStart) + 1, Len(u) - Len(FenceEnd))

\* the J of a fenced text: what lies between the fences, without the newlines
\* at its two ends
FencedJ(t) == NewlinesStripped(Fenced(t))

\* t is: whitespace, the leading fence, newline(s), J, newline(s), the trailing
\* fence, whitespace, with J free of newlines, of surrounding whitespace and
\* of fences at its ends
IsFencedForm(t) ==
    LET u == Stripped(t)
        mid == Fenced(t)
        j == FencedJ(t)
    IN  /\ Len(u) >= Len(FenceStart) + Len(FenceEnd)
        /\ StartsWith(u, FenceStart)
        /\ EndsWith(u, FenceEnd)
        /\ j # <<>>
        /\ Head(mid) = "\n"
        /\ mid[Len(mid)] = "\n"
        /\ HasNoNewline(j)
        /\ Stripped(j) = j
        /\ ~StartsWith(j, FenceStart)
        /\ ~EndsWith(j, FenceEnd)

\* C5: a text of the form whitespace, ```json, newline(s), J, newline(s), ```,
\* whitespace cleans to exactly J, and when J is a valid command payload the
\* response is accepted and J is what is returned.
C5_FenceStripped ==
    (Ran("clean") /\ IsFencedForm(raw_text))
        => LET j == FencedJ(raw_text)
               r == from_str(j)
           IN  /\ text = j
               /\ (pc = "done" /\ r.ok /\ ValidPayload(r.v)) => result = OkResult(j)

\* a padded, fenced payload with two newlines inside the fences, accepted
C5_Witness ==
    /\ pc = "done" /\ IsFencedForm(raw_text)
    /\ raw_text # Stripped(raw_text)
    /\ SubSeq(Fenced(raw_text), 1, 2) = <<"\n", "\n">>
    /\ result = OkResult(GreetingPayload)

\* C6 as claimed: cleaning the cleaned text changes nothing, whatever the
\* extracted text was.
C6_Idempotent ==
    Ran("clean") => CleanText(text) = text

\* C6 amended: when the cleaned text neither starts with ```json nor ends with
\* ```, cleaning it again changes nothing; and an extracted text with no
\* surrounding whitespace, no fence at either end and no newline is its own
\* cleaned text.
C6_IdempotentOnClean ==
    /\ (Ran("clean") /\ ~StartsWith(text, FenceStart) /\ ~EndsWith(text, FenceEnd))
          => CleanText(text) = text
    /\ (Ran("clean") /\ Stripped(raw_text) = raw_text
           /\ ~StartsWith(raw_text, FenceStart) /\ ~EndsWith(raw_text, FenceEnd)
           /\ HasNoNewline(raw_text))
          => text = raw_text

\* a fenced text was cleaned and the cleaned text is stable
C6_Witness ==
    /\ Ran("clean") /\ raw_text # text
    /\ StartsWith(Stripped(raw_text), FenceStart)
    /\ ~StartsWith(text, FenceStart) /\ ~EndsWith(text, FenceEnd)
    /\ CleanText(text) = text

\* C7: a 2xx response whose cleaned text decodes to a payload that meets the
\* command contract ends in Ok, and the returned string is the cleaned text
\* itself.
C7_Accepted ==
    (pc = "done" /\ Invoked /\ res.status \in 200..299 /\ Ran("from_str")
        /\ from_str(text).ok /\ ValidPayload(from_str(text).v))
        => result = OkResult(text)

\* an accepted command "2" whose parameters array is not empty and whose
\* cleaned text differs from the extracted text
C7_Witness ==
    /\ pc = "done" /\ result = OkResult(text) /\ text # raw_text
    /\ Member(json_value, KeyCommand).s = CmdTwo
    /\ Len(Member(json_value, KeyParameters).kids) = 2

\* C8: a 2xx response whose cleaned text decodes as JSON but breaks the command
\* contract ends in an ApiError with the message of the violation: missing
\* fields, single parameters, multiple parameters, or unknown command v.
C8_SchemaErrors ==
    (pc = "done" /\ Invoked /\ res.status \in 200..299 /\ Ran("from_str")
        /\ from_str(text).ok /\ ~ValidPayload(from_str(text).v))
        => result = ApiError(res.status, ContractMessage(from_str(text).v))

\* command "2" with an object for parameters
C8_Witness ==
    /\ pc = "done" /\ result = ApiError(200, MsgMultiple)
    /\ Member(json_value, KeyCommand).s = CmdTwo
    /\ HasMemberOfType(json_value, KeyParameters, "object")

\* C9: call_llm_api runs the probe, the POST and handle_response in that order,
\* each at most once and only after the one before succeeded; a failed probe
\* returns the resolution error with no request sent, a failed send returns
\* the transport error with handle_response never run.
C9_CallOrder ==
    /\ log \in { <<>>, <<"probe:err">>, <<"probe:ok">>, <<"probe:ok", "post:err">>,
                 <<"probe:ok", "post:ok", "handle_response">> }
    /\ log = <<"probe:err">>
          => pc = "done" /\ result = ResolveError /\ res = NoResponse /\ steps = <<>>
    /\ log = <<"probe:ok", "post:err">>
          => pc = "done" /\ result = TransportError /\ res = NoResponse /\ steps = <<>>
    /\ result.kind = "ResolveError" => log = <<"probe:err">>
    /\ result.kind = "TransportError" => log = <<"probe:ok", "post:err">>
    /\ (steps # <<>> \/ res # NoResponse)
          => log = <<"probe:ok", "post:ok", "handle_response">>

\* the send failed after a successful probe
C9_Witness ==
    /\ pc = "done" /\ log = <<"probe:ok", "post:err">> /\ result = TransportError

AllSteps == <<"status", "json", "extract", "clean", "from_str", "fields", "match">>

\* where handle_response stands before each of its steps
NextStepPc ==
    <<"hr_status", "hr_json", "hr_extract", "hr_clean", "hr_from_str", "hr_fields", "hr_match">>

\* the outcome the first failing step fixes, and the number of steps run
FirstFailure(r) ==
    IF r.status \notin 200..299
    THEN [n |-> 1, result |-> ApiError(r.status, IF r.readable THEN r.body ELSE MsgUnreadable)]
    ELSE IF ~r.readable \/ ~from_str(r.body).ok
    THEN [n |-> 2, result |-> DecodeError]
    ELSE IF ~PathPresent(from_str(r.body).v)
    THEN [n |-> 3, result |-> ApiError(r.status, MsgExtract)]
    ELSE LET cleaned == AllFencesCleaned(
                 Member(FirstOf(Member(Member(FirstOf(Member(from_str(r.body).v,
                     KeyCandidates)), KeyContent), KeyParts)), KeyText).s)
         IN  IF ~from_str(cleaned).ok
             THEN [n |-> 5, result |-> ApiError(r.status, MsgInvalidJson \o SerdeErrorText)]
             ELSE IF ~HasMemberOfType(from_str(cleaned).v, KeyCommand, "string")
             THEN [n |-> 6, result |-> ApiError(r.status, MsgMissingFields)]
             ELSE IF ~ValidPayload(from_str(cleaned).v)
             THEN [n |-> 7, result |-> ApiError(r.status, ContractMessage(from_str(cleaned).v))]
             ELSE [n |-> 7, result |-> OkResult(cleaned)]

\* C10: handle_response goes through its steps in one fixed order with exactly
\* one step to take next until it returns, never panics, and its one outcome
\* is fixed by the first step that fails in the order status, envelope decode,
\* extraction, payload decode, fields, dispatch; no step runs after a failure
\* (a 2xx body that is not JSON ends in the raw decode error), and every
\* ApiError after a 2xx status carries that status.
C10_FirstFailureWins ==
    /\ steps = SubSeq(AllSteps, 1, Len(steps))
    /\ (Invoked /\ pc # "done")
          => /\ Len(steps) < Len(AllSteps)
             /\ pc = NextStepPc[Len(steps) + 1]
             /\ result = NoResult
    /\ result.kind = "Panic" => ~Invoked
    /\ (Invoked /\ pc = "done")
          => /\ result = FirstFailure(res).result
             /\ Len(steps) = FirstFailure(res).n
             /\ (result.kind = "ApiError" => result.status = res.status)

\* a 2xx body that is not JSON ended in the decode error after two steps
C10_Witness ==
    /\ pc = "done" /\ res.status = 204 /\ res.readable
    /\ result = DecodeError /\ steps = <<"status", "json">>
====
